---- MODULE Spec2Model ----
(***************************************************************************)
(* Model of the tracker dashboard service: the warehouse client            *)
(* (tracker-project/snowflake_db.py), the enrichment matcher               *)
(* (tracker-project/tracker.py) and the HTTP routes (tracker-project/      *)
(* api.py).  Text values are sequences of one-character strings, so that   *)
(* slicing, prefix tests and substring tests are computed, not assumed.    *)
(***************************************************************************)
EXTENDS Integers, Sequences, FiniteSets, TLC

VARIABLES
    snowflake_db,   \* api.py global: TRUE when startup built the warehouse handle
    autocommit,     \* session mode of every connection (conn_params leaves it to the account)
    tracker_db,     \* TrackerEnricher.tracker_db: sequence of [name, properties]
    URL_DATA,       \* warehouse table of tracker rows; the row ID is the position
    blocklist,      \* warehouse table blocklist: its rows in insertion order
    req,            \* per worker: the request being handled, its position and locals
    leaked,         \* connections a finished client operation left open
    out,            \* the response the last step sent, if it sent one, with what its request did
    prev,           \* the (domain, user) of the last completed blocklist call, if it added a row
    stamps,         \* CREATED_AT of the rows the dashboards read, one instant per row
    now,            \* the clock
    view,           \* last dashboard response (overview / trends)
    report,         \* last security-report exchange
    probe           \* last direct call of a method of TrackerEnricher or SnowflakeDB

vars == <<snowflake_db, autocommit, tracker_db, URL_DATA, blocklist, req,
          leaked, out, prev, stamps, now, view, report, probe>>

----------------------------------------------------------------------------
(* Bounds of the model *)

MaxRows == 2        \* stored tracker rows
MaxBlockRows == 3   \* stored blocklist rows
MaxLeaks == 1       \* connections left open per run
MaxStamps == 2      \* tracker rows the dashboards can see
MaxDays == 3        \* largest window asked of /api/trends
TicksPerDay == 2    \* instants told apart within one calendar day
MaxNow == 15        \* instants the clock runs through
MaxCompanies == 2   \* companies in a downloaded entity map

(* Program constants *)

DomainCol == 255    \* snowflake_db.py: domain[:255]
CategoryCol == 100  \* snowflake_db.py: category[:100]
EnrichLimit == 50   \* api.py: get_unenriched_trackers(limit=50)
OverviewWindow == 7 \* api.py: range(6, -1, -1) and DATEADD(day, -7, ...)

----------------------------------------------------------------------------
(* Text helpers: Python str operations on sequences of characters *)

Min(a, b) == IF a <= b THEN a ELSE b

\* s[:n]
Slice(s, n) == SubSeq(s, 1, Min(Len(s), n))

\* s[n:]
Drop(s, n) == SubSeq(s, n + 1, Len(s))

\* s.startswith(p)
StartsWith(s, p) == Len(p) <= Len(s) /\ SubSeq(s, 1, Len(p)) = p

\* s.endswith(p)
EndsWith(s, p) == Len(p) <= Len(s) /\ SubSeq(s, Len(s) - Len(p) + 1, Len(s)) = p

\* a in b
IsSubstr(a, b) ==
    \E i \in 0..(Len(b) - Len(a)) : SubSeq(b, i + 1, i + Len(a)) = a

\* s.replace(p, '') for a non-empty p: every non-overlapping occurrence, left to right
RECURSIVE RemoveAll(_, _)
RemoveAll(s, p) ==
    IF Len(s) < Len(p) THEN s
    ELSE IF StartsWith(s, p) THEN RemoveAll(Drop(s, Len(p)), p)
    ELSE <<s[1]>> \o RemoveAll(Drop(s, 1), p)

\* s.split(c)[0]
RECURSIVE BeforeFirst(_, _)
BeforeFirst(s, c) ==
    IF s = <<>> \/ s[1] = c THEN <<>>
    ELSE <<s[1]>> \o BeforeFirst(Drop(s, 1), c)

Upper == <<"A","B","C","D","E","F","G","H","I","J","K","L","M",
           "N","O","P","Q","R","S","T","U","V","W","X","Y","Z">>
LowerOf == <<"a","b","c","d","e","f","g","h","i","j","k","l","m",
             "n","o","p","q","r","s","t","u","v","w","x","y","z">>

LowerChar(c) ==
    IF \E i \in 1..26 : Upper[i] = c
    THEN LowerOf[CHOOSE i \in 1..26 : Upper[i] = c]
    ELSE c

\* s.lower()
Lower(s) == [i \in 1..Len(s) |-> LowerChar(s[i])]

\* a text of n copies of c
Rep(c, n) == [i \in 1..n |-> c]

----------------------------------------------------------------------------
(* Enrichment matcher: tracker.py *)

Www == <<"w","w","w",".">>
Https == <<"h","t","t","p","s",":","/","/">>
Http == <<"h","t","t","p",":","/","/">>

_clean_domain(domain) ==
    BeforeFirst(RemoveAll(RemoveAll(RemoveAll(domain, Www), Https), Http), "/")

AdWords == << <<"g","o","o","g","l","e">>, <<"f","a","c","e","b","o","o","k">>,
              <<"d","o","u","b","l","e","c","l","i","c","k">>, <<"a","d">>,
              <<"a","d","v","e","r","t","i","s","i","n","g">> >>
AnalyticsWords == << <<"a","n","a","l","y","t","i","c","s">>, <<"m","e","t","r","i","c">>,
                     <<"c","h","a","r","t","b","e","a","t">> >>
SocialWords == << <<"s","o","c","i","a","l">>, <<"t","w","i","t","t","e","r">>,
                  <<"i","n","s","t","a","g","r","a","m">>, <<"t","i","k","t","o","k">> >>

Advertising == <<"A","d","v","e","r","t","i","s","i","n","g">>
Analytics == <<"A","n","a","l","y","t","i","c","s">>
Social == <<"S","o","c","i","a","l">>
Tracking == <<"T","r","a","c","k","i","n","g">>
Unknown == <<"U","n","k","n","o","w","n">>

AnyWordIn(words, text) == \E i \in 1..Len(words) : IsSubstr(words[i], text)

\* the keyword lists tried in another order: analytics before advertising
_get_category_swapped(company_name) ==
    LET company_lower == Lower(company_name) IN
    IF AnyWordIn(AnalyticsWords, company_lower) THEN Analytics
    ELSE IF AnyWordIn(AdWords, company_lower) THEN Advertising
    ELSE IF AnyWordIn(SocialWords, company_lower) THEN Social
    ELSE Tracking

_get_category(company_name) ==
    LET company_lower == Lower(company_name) IN
    IF AnyWordIn(AdWords, company_lower) THEN Advertising
    ELSE IF AnyWordIn(AnalyticsWords, company_lower) THEN Analytics
    ELSE IF AnyWordIn(SocialWords, company_lower) THEN Social
    ELSE Tracking

\* prop matches the cleaned domain in either direction
PropMatches(domain, prop) == IsSubstr(domain, prop) \/ IsSubstr(prop, domain)

CompanyMatches(domain, entry) ==
    \E j \in 1..Len(entry.properties) : PropMatches(domain, entry.properties[j])

\* a lookup that tests only whether the domain lies inside a property
FirstMatchOneWay(db, domain) ==
    LET hit(i) == \E j \in 1..Len(db[i].properties) : IsSubstr(domain, db[i].properties[j])
    IN IF \E i \in 1..Len(db) : hit(i)
       THEN CHOOSE i \in 1..Len(db) : hit(i) /\ \A k \in 1..(i - 1) : ~hit(k)
       ELSE 0

\* index of the first company, in iteration order, with a matching property; 0 if none
FirstMatch(db, domain) ==
    IF \E i \in 1..Len(db) : CompanyMatches(domain, db[i])
    THEN CHOOSE i \in 1..Len(db) :
            /\ CompanyMatches(domain, db[i])
            /\ \A k \in 1..(i - 1) : ~CompanyMatches(domain, db[k])
    ELSE 0

\* enrich without its first test: the lookup runs whatever the company holds
enrich_any(db, tracker_data) ==
    LET domain == _clean_domain(tracker_data.domain)
        m == FirstMatch(db, domain)
    IN IF m # 0
       THEN [tracker_data EXCEPT !.company = db[m].name,
                                 !.category = _get_category(db[m].name)]
       ELSE [tracker_data EXCEPT !.company = Unknown, !.category = Unknown]

\* TrackerEnricher.enrich on a record with fields domain, company, category
enrich(db, tracker_data) ==
    IF tracker_data.company # <<>> THEN tracker_data
    ELSE LET domain == _clean_domain(tracker_data.domain)
             m == FirstMatch(db, domain)
         IN IF m # 0
            THEN [tracker_data EXCEPT !.company = db[m].name,
                                      !.category = _get_category(db[m].name)]
            ELSE [tracker_data EXCEPT !.company = Unknown, !.category = Unknown]

----------------------------------------------------------------------------
(* TrackerEnricher on its own: construction, then calls of its methods *)

\* what requests.get(url, timeout=10) followed by response.json() can come to: an
\* exception (connection error, timeout, a body that is not JSON), or the parsed object
Failures == {"ConnectionError", "Timeout", "JSONDecodeError"}

\* a loader that falls back on a built-in table when the download fails
_load_database_fallback(download) ==
    IF download.kind \in Failures
    THEN <<[name |-> <<"G","o","o","g","l","e">>,
            properties |-> << <<"d","o","u","b","l","e","c","l","i","c","k",".","n","e","t">> >>]>>
    ELSE download.body

\* TrackerEnricher._load_database: the table kept
_load_database(download) ==
    IF download.kind \in Failures THEN <<>> ELSE download.body

NoProbe == [fn |-> "", download |-> "", arg |-> <<>>, result |-> <<>>]

\* TrackerEnricher(): the table is downloaded once, at construction
construct(downloads) ==
    /\ probe = NoProbe
    /\ \E download \in downloads :
         /\ tracker_db' = _load_database(download)
         /\ probe' = [NoProbe EXCEPT !.fn = "__init__", !.download = download.kind]
    /\ UNCHANGED <<snowflake_db, autocommit, URL_DATA, blocklist, req, leaked, out, prev,
                   stamps, now, view, report>>

\* a call of enrich that drops the table once it has answered
call_enrich_once(records) ==
    /\ probe.fn # ""
    /\ \E tracker_data \in records :
         probe' = [probe EXCEPT !.fn = "enrich", !.arg = tracker_data,
                                !.result = enrich(tracker_db, tracker_data)]
    /\ tracker_db' = <<>>
    /\ UNCHANGED <<snowflake_db, autocommit, URL_DATA, blocklist, req, leaked,
                   out, prev, stamps, now, view, report>>

\* a call of enrich
call_enrich(records) ==
    /\ probe.fn # ""
    /\ \E tracker_data \in records :
         probe' = [probe EXCEPT !.fn = "enrich", !.arg = tracker_data,
                                !.result = enrich(tracker_db, tracker_data)]
    /\ UNCHANGED <<snowflake_db, autocommit, tracker_db, URL_DATA, blocklist, req, leaked,
                   out, prev, stamps, now, view, report>>

\* a call of _clean_domain
call_clean_domain(domains) ==
    /\ probe.fn # ""
    /\ \E domain \in domains :
         probe' = [probe EXCEPT !.fn = "_clean_domain", !.arg = domain,
                                !.result = _clean_domain(domain)]
    /\ UNCHANGED <<snowflake_db, autocommit, tracker_db, URL_DATA, blocklist, req, leaked,
                   out, prev, stamps, now, view, report>>

\* a call of _get_category
call_get_category(names) ==
    /\ probe.fn # ""
    /\ \E company_name \in names :
         probe' = [probe EXCEPT !.fn = "_get_category", !.arg = company_name,
                                !.result = _get_category(company_name)]
    /\ UNCHANGED <<snowflake_db, autocommit, tracker_db, URL_DATA, blocklist, req, leaked,
                   out, prev, stamps, now, view, report>>

----------------------------------------------------------------------------
(* Inputs of the model: the values requests carry *)

DoubleClick == <<"d","o","u","b","l","e","c","l","i","c","k",".","n","e","t">>
Google == <<"G","o","o","g","l","e">>
XIo == <<"x",".","i","o">>
Acme == <<"A","c","m","e">>
UserA == <<"a","@","x">>
UserB == <<"b","@","x">>
Users == {UserA, UserB}

\* the entity map after a failed download, and after a successful one
EmptyTable == <<>>
GoogleTable == << [name |-> Google, properties |-> <<DoubleClick>>] >>

\* entity maps a download can deliver: at most MaxCompanies companies, each with at
\* most one property, in every iteration order
ClickNet == <<"c","l","i","c","k",".","n","e","t">>
Properties == {DoubleClick, ClickNet, XIo}
Entries ==
    {[name |-> n, properties |-> ps] :
        n \in {Google, Acme}, ps \in {<<>>} \cup {<<q>> : q \in Properties}}
Tables ==
    UNION {{t \in [1..n -> Entries] : \A i, j \in 1..n : i # j => t[i].name # t[j].name} :
              n \in 0..MaxCompanies}
Downloads ==
    {[kind |-> k, body |-> <<>>] : k \in Failures}
        \cup {[kind |-> "ok", body |-> t] : t \in Tables}

\* domains handed to enrich and _clean_domain
EnrichDomains ==
    {DoubleClick, XIo, <<>>, Www, Www \o DoubleClick \o <<"/", "x">>,
     Https \o Www \o XIo, Http \o XIo \o <<"/">>, <<"a">> \o Www \o XIo,
     Www \o Www \o XIo, <<"r","a","n","d","o","m","-","x","y","z",".","c","o","m">>}
EnrichRecords ==
    {[domain |-> d, company |-> co, category |-> <<>>] :
        d \in EnrichDomains, co \in {<<>>, Acme, Unknown}}

\* company names handed to _get_category
CompanyNames ==
    {Google, Acme, <<"G","o","o","g","l","e"," ","A","n","a","l","y","t","i","c","s">>, <<"C","h","a","r","t","b","e","a","t">>, <<"T","i","k","T","o","k">>,
     <<"S","o","c","i","a","l"," ","M","e","t","r","i","c","s">>, <<"A","d","o","b","e">>, <<"A","D","V","E","R","T","I","S","I","N","G"," ","I","n","c">>}

\* JSON values of the "occurrences" key: a number, or a text int() rejects
GoodCount == [kind |-> "int", v |-> 1]
BadCount == [kind |-> "str", v |-> <<"x">>]

Tracker(d, co, ca, n) ==
    [domain |-> d, fullUrl |-> d \o <<"/">>, initiator |-> XIo,
     company |-> co, category |-> ca, occurrences |-> n]

TrackerInputs ==
    { Tracker(DoubleClick, <<>>, Lower(Analytics), GoodCount),
      Tracker(XIo, Acme, Lower(Tracking), GoodCount),
      Tracker(XIo, <<>>, <<>>, BadCount) }

\* request.trackers: every batch of at most MaxRows records
Batches == UNION { [1..n -> TrackerInputs] : n \in 0..MaxRows }

\* the batches two concurrent uploads send: nothing, or one unlabeled record
RaceBatches ==
    { <<>>, <<Tracker(DoubleClick, <<>>, Lower(Analytics), GoodCount)>>,
      <<Tracker(DoubleClick, Unknown, <<>>, GoodCount)>>,
      <<Tracker(XIo, <<>>, <<>>, GoodCount)>> }

\* the batches the uploads send when only the owner of a row matters
OwnerBatches == { <<>>, <<Tracker(XIo, <<>>, <<>>, GoodCount)>> }

\* the batches the uploads send when the backfill is to relabel what they store
UnlabelledBatches == { <<>>, <<Tracker(DoubleClick, <<>>, Lower(Analytics), GoodCount)>> }

\* request.cookies matters to the routes only through its length
CookieCounts == {0, 1}

----------------------------------------------------------------------------
(* Warehouse client: snowflake_db.py *)

UrlCol == 2000       \* fullUrl[:2000]
InitiatorCol == 500  \* initiator[:500]

\* int(tracker.get('occurrences', 1)) raises on a text that is no number
IntFails(x) == x.kind = "str" /\ \E i \in 1..Len(x.v) : x.v[i] \notin {"0","1","2","3","4","5","6","7","8","9"}

\* the parameter tuple of the INSERT of insert_trackers, plus the history of the row:
\* how often enrichment has written it
UrlRow(tracker, user_email) ==
    [DOMAIN_NAME |-> Slice(tracker.domain, DomainCol),
     FULL_URL |-> Slice(tracker.fullUrl, UrlCol),
     INITIATOR |-> Slice(tracker.initiator, InitiatorCol),
     COMPANY |-> Slice(tracker.company, DomainCol),
     CATEGORY |-> Slice(tracker.category, CategoryCol),
     OCCURRENCES |-> tracker.occurrences.v,
     EMAIL_ID |-> Slice(user_email, DomainCol),
     ENRICH_WRITES |-> 0]

\* how one client operation can end: normally, or with the warehouse raising in
\* connect(), cursor(), execute() or commit()
Outcomes == {"ok", "connect", "cursor", "execute", "commit"}
NoFault == {"ok"}

\* where a call that executes n statements can fail: <<outcome, statement>>
FaultPoints(outcomes, n) ==
    {<<f, 1>> : f \in outcomes \ {"execute"}}
        \cup {<<f, k>> : f \in outcomes \cap {"execute"}, k \in 1..n}

\* index of the first record whose value conversion raises, 0 if none
FirstBad(trackers) ==
    IF \E i \in 1..Len(trackers) : IntFails(trackers[i].occurrences)
    THEN CHOOSE i \in 1..Len(trackers) :
            /\ IntFails(trackers[i].occurrences)
            /\ \A k \in 1..(i - 1) : ~IntFails(trackers[k].occurrences)
    ELSE 0

\* What a rollback leaves of the rows executed so far: with autocommit on every
\* INSERT was committed when it ran; otherwise the transaction is discarded.
AfterRollback(ac, before, executed) == IF ac THEN executed ELSE before

\* SnowflakeDB.insert_trackers for a non-empty batch.  fault is the exception the
\* warehouse raises (or "ok"); k the row whose execute raises when fault = "execute".
\* Result: the table, whether the call raised, its return value, the connections it
\* opened and left open, the statements it ran, whether rollback / commit were called,
\* and the row whose conversion or execute raised (0 if none did).
insert_trackers(table, trackers, user_email, ac, fault, k) ==
    LET n == Len(trackers)
        bad == FirstBad(trackers)
        failAt == IF fault = "execute" /\ (bad = 0 \/ k < bad) THEN k ELSE bad
        rowsTo(m) == table \o [i \in 1..m |-> UrlRow(trackers[i], user_email)]
        base == [table |-> table, raised |-> TRUE, inserted |-> 0, opened |-> 1,
                 leaked |-> 0, stmts |-> 0, rollbacks |-> 0, commits |-> 0,
                 failed_row |-> 0]
    IN  IF fault = "connect" THEN [base EXCEPT !.opened = 0]
        ELSE IF fault = "cursor" THEN [base EXCEPT !.leaked = 1]
        ELSE IF failAt # 0
        THEN [base EXCEPT !.table = AfterRollback(ac, table, rowsTo(failAt - 1)),
                          !.stmts = IF failAt = bad THEN failAt - 1 ELSE failAt,
                          !.rollbacks = 1, !.failed_row = failAt]
        ELSE IF fault = "commit"
        THEN [base EXCEPT !.table = AfterRollback(ac, table, rowsTo(n)),
                          !.stmts = n, !.commits = 1, !.rollbacks = 1]
        ELSE [base EXCEPT !.table = rowsTo(n), !.raised = FALSE, !.inserted = n,
                          !.stmts = n, !.commits = 1]

\* an insert_cookies that stores and counts every record
insert_cookies_all(cookies, user_email) == cookies

\* SnowflakeDB.insert_cookies: returns 0 without reaching the warehouse
insert_cookies(cookies, user_email) == 0

\* the elements of a set of numbers, ascending
RECURSIVE Ascending(_)
Ascending(S) ==
    IF S = {} THEN <<>>
    ELSE LET m == CHOOSE x \in S : \A y \in S : x <= y
         IN <<m>> \o Ascending(S \ {m})

\* WHERE COMPANY IS NULL OR COMPANY = '' OR COMPANY = 'Unknown'
\* (insert_trackers never stores NULL: it slices the value it stores)
NeedsLabel(row) == row.COMPANY = <<>> \/ row.COMPANY = Unknown

\* SnowflakeDB.get_unenriched_trackers: the result sets the SELECT ... LIMIT can
\* return; without ORDER BY any limit-sized part of the matching rows may come back
get_unenriched_trackers(table, limit) ==
    LET ids == {i \in 1..Len(table) : NeedsLabel(table[i])}
        take == Min(limit, Cardinality(ids))
    IN { [k \in 1..take |->
            [ID |-> Ascending(chosen)[k],
             DOMAIN_NAME |-> table[Ascending(chosen)[k]].DOMAIN_NAME,
             COMPANY |-> table[Ascending(chosen)[k]].COMPANY,
             CATEGORY |-> table[Ascending(chosen)[k]].CATEGORY]]
         : chosen \in {c \in SUBSET ids : Cardinality(c) = take} }

\* an UPDATE that also rewrites the owner of the row
UpdateRowAndOwner(table, tracker_id, company, category) ==
    [table EXCEPT ![tracker_id] =
        [@ EXCEPT !.COMPANY = Slice(company, DomainCol),
                  !.CATEGORY = Slice(category, CategoryCol),
                  !.EMAIL_ID = <<>>,
                  !.ENRICH_WRITES = @ + 1]]

\* UPDATE URL_DATA SET COMPANY = %s, CATEGORY = %s WHERE ID = %s
UpdateRow(table, tracker_id, company, category) ==
    [table EXCEPT ![tracker_id] =
        [@ EXCEPT !.COMPANY = Slice(company, DomainCol),
                  !.CATEGORY = Slice(category, CategoryCol),
                  !.ENRICH_WRITES = @ + 1]]

\* SnowflakeDB.update_enriched_tracker: no except clause, so a failed commit
\* leaves the UPDATE to the session mode, and close() ends the session
update_enriched_tracker(table, tracker_id, company, category, ac, fault) ==
    LET base == [table |-> table, raised |-> TRUE, opened |-> 1, leaked |-> 0,
                 stmts |-> 0]
        done == UpdateRow(table, tracker_id, company, category)
    IN  IF fault = "connect" THEN [base EXCEPT !.opened = 0]
        ELSE IF fault = "cursor" THEN [base EXCEPT !.leaked = 1]
        ELSE IF fault = "execute" THEN [base EXCEPT !.stmts = 1]
        ELSE IF fault = "commit"
        THEN [base EXCEPT !.table = AfterRollback(ac, table, done), !.stmts = 1]
        ELSE [base EXCEPT !.table = done, !.stmts = 1, !.raised = FALSE]

----------------------------------------------------------------------------------------------------------------------------------------
(* HTTP routes: api.py.  A worker handles one request at a time; a request *)
(* that makes several warehouse calls is several steps, so that the calls  *)
(* of two requests interleave.                                             *)

Workers == {1, 2}

NoCall == [n |-> 0, stored |-> 0, raised |-> FALSE, inserted |-> 0,
           rollbacks |-> 0, commits |-> 0, failed_row |-> 0]

\* a worker between requests
None == <<>>
Idle == [pc |-> "idle", route |-> "", domain |-> <<>>, email |-> <<>>, follows |-> None,
         todo |-> <<>>, sent |-> [trackers |-> 0, cookies |-> 0],
         cookies_inserted |-> 0, trackers_inserted |-> 0,
         opened |-> FALSE, stmts |-> FALSE, backfill |-> "", call |-> NoCall]

NoOut == [route |-> "", status |-> 0, success |-> FALSE, message |-> "",
          domain |-> <<>>, email |-> <<>>, follows |-> None, domains |-> <<>>,
          sent |-> [trackers |-> 0, cookies |-> 0],
          cookies_inserted |-> 0, trackers_inserted |-> 0,
          opened |-> FALSE, stmts |-> FALSE, backfill |-> "", call |-> NoCall]

\* the response of request r: a JSON body (status 200) or an HTTPException
Response(r, status, success, message) ==
    [route |-> r.route, status |-> status, success |-> success, message |-> message,
     domain |-> r.domain, email |-> r.email, follows |-> r.follows, domains |-> <<>>,
     sent |-> r.sent,
     cookies_inserted |-> r.cookies_inserted, trackers_inserted |-> r.trackers_inserted,
     opened |-> r.opened, stmts |-> r.stmts, backfill |-> r.backfill, call |-> r.call]

\* every write route raising when the handle is absent
UnavailableRaises(r) == Response(r, 503, FALSE, "Database not available")

\* what a write route answers when the warehouse handle is absent: the two upload
\* routes return a body, POST /api/blocklist raises
Unavailable(r) ==
    IF r.route = "POST /api/blocklist"
    THEN Response(r, 503, FALSE, "Database not available")
    ELSE Response(r, 200, FALSE, "Database not available")

\* startup_event always builds the matcher, so the global is never None afterwards
tracker_identifier == TRUE

\* a backfill that never goes past its first line
BackfillNever(db) == FALSE

\* enrich_unknown_trackers goes past its first line
BackfillRuns(db) == db /\ tracker_identifier

\* where an upload goes once its inserts are done
AfterInserts(r) ==
    IF BackfillRuns(snowflake_db) THEN [r EXCEPT !.pc = "enrich_select"] ELSE r

\* the upload goes on to the backfill, or answers at once when there is none
Proceed(p, r) ==
    IF AfterInserts(r).pc = "enrich_select"
    THEN /\ req' = [req EXCEPT ![p] = AfterInserts(r)]
         /\ out' = NoOut
    ELSE /\ out' = Response(r, 200, TRUE, "")
         /\ UNCHANGED req

\* POST /api/trackers, up to the end of insert_trackers
upload_tracker_data(p, emails, batches, outcomes) ==
    /\ req[p].pc = "idle"
    /\ \E email \in emails, ncookies \in CookieCounts,
          trackers \in {b \in batches : Len(URL_DATA) + Len(b) <= MaxRows} :
       \E at \in FaultPoints(outcomes, Len(trackers)) :
        LET fault == at[1]
            k == at[2]
            r0 == [Idle EXCEPT !.route = "POST /api/trackers",
                               !.email = email,
                               !.sent = [trackers |-> Len(trackers), cookies |-> ncookies]]
        IN
        /\ IF ~snowflake_db
           THEN /\ fault = "ok"
                /\ out' = Unavailable(r0)
                /\ UNCHANGED <<URL_DATA, leaked, req>>
           ELSE LET c == IF ncookies > 0 THEN insert_cookies(ncookies, email) ELSE 0
                IN IF trackers = <<>>
                   THEN /\ fault = "ok"
                        /\ Proceed(p, [r0 EXCEPT !.cookies_inserted = c])
                        /\ UNCHANGED <<URL_DATA, leaked>>
                   ELSE LET res == insert_trackers(URL_DATA, trackers, email, autocommit, fault, k)
                            r1 == [r0 EXCEPT !.cookies_inserted = c,
                                             !.trackers_inserted = res.inserted,
                                             !.opened = res.opened > 0, !.stmts = res.stmts > 0,
                                             !.call = [n |-> Len(trackers),
                                                       stored |-> Len(res.table) - Len(URL_DATA),
                                                       raised |-> res.raised,
                                                       inserted |-> res.inserted,
                                                       rollbacks |-> res.rollbacks,
                                                       commits |-> res.commits,
                                                       failed_row |-> res.failed_row]]
                        IN /\ leaked + res.leaked <= MaxLeaks
                           /\ URL_DATA' = res.table
                           /\ leaked' = leaked + res.leaked
                           /\ IF res.raised
                              THEN /\ out' = Response(r1, 500, FALSE, "Error uploading data")
                                   /\ UNCHANGED req
                              ELSE Proceed(p, r1)
    /\ UNCHANGED <<probe, snowflake_db, autocommit, tracker_db, blocklist, prev, stamps, now, view, report>>

\* connections a failed read-only operation opened / left open
OpenedBy(fault) == IF fault = "connect" THEN 0 ELSE 1
LeakedBy(fault) == IF fault = "cursor" THEN 1 ELSE 0

\* enrich_unknown_trackers, first half: read the unlabeled rows.  An exception is
\* logged and the upload answers as if the backfill had run.
enrich_select(p, outcomes) ==
    /\ req[p].pc = "enrich_select"
    /\ \E fault \in outcomes \ {"commit"}, rows \in get_unenriched_trackers(URL_DATA, EnrichLimit) :
        LET r1 == [req[p] EXCEPT !.opened = @ \/ OpenedBy(fault) > 0,
                                 !.stmts = @ \/ fault \notin {"connect", "cursor"},
                                 !.backfill = IF fault = "ok" THEN "read" ELSE "failed"]
        IN
        /\ leaked + LeakedBy(fault) <= MaxLeaks
        /\ leaked' = leaked + LeakedBy(fault)
        /\ IF fault # "ok" \/ rows = <<>>
           THEN /\ out' = Response(r1, 200, TRUE, "")
                /\ req' = [req EXCEPT ![p] = Idle]
           ELSE /\ req' = [req EXCEPT ![p] = [r1 EXCEPT !.pc = "enrich_row", !.todo = rows]]
                /\ out' = NoOut
    /\ UNCHANGED <<probe, snowflake_db, autocommit, tracker_db, URL_DATA, blocklist,
                   prev, stamps, now, view, report>>

\* a loop that an exception in one row ends
RowsLeftUnlessRaised(raised, todo) == IF raised THEN <<>> ELSE Tail(todo)

\* the rows the loop still visits after one row: the except clause inside the loop
\* logs whatever the row raised, and the loop goes on
RowsLeft(raised, todo) == Tail(todo)

\* enrich_unknown_trackers, one turn of the loop over the rows read
enrich_row(p, outcomes) ==
    /\ req[p].pc = "enrich_row"
    /\ LET tracker == req[p].todo[1]
           tracker_data == [domain |-> tracker.DOMAIN_NAME,
                            company |-> tracker.COMPANY,
                            category |-> tracker.CATEGORY]
           enriched == enrich(tracker_db, tracker_data)
           next(r, raised) ==
               LET rest == RowsLeft(raised, req[p].todo)
               IN /\ req' = [req EXCEPT ![p] =
                               IF rest = <<>> THEN Idle ELSE [r EXCEPT !.todo = rest]]
                  /\ out' = IF rest = <<>> THEN Response(r, 200, TRUE, "") ELSE NoOut
       IN IF enriched.company # <<>> /\ enriched.company # Unknown
          THEN \E fault \in outcomes :
                 LET res == update_enriched_tracker(URL_DATA, tracker.ID, enriched.company,
                                                    enriched.category, autocommit, fault)
                 IN /\ leaked + res.leaked <= MaxLeaks
                    /\ URL_DATA' = res.table
                    /\ leaked' = leaked + res.leaked
                    /\ next([req[p] EXCEPT !.opened = @ \/ res.opened > 0,
                                           !.stmts = @ \/ res.stmts > 0], res.raised)
          ELSE /\ next(req[p], FALSE)
               /\ UNCHANGED <<URL_DATA, leaked>>
    /\ UNCHANGED <<probe, snowflake_db, autocommit, tracker_db, blocklist, prev, stamps, now, view, report>>

\* POST /api/cookies/upload
upload_cookie_data(p, emails) ==
    /\ req[p].pc = "idle"
    /\ \E email \in emails, ncookies \in CookieCounts :
        LET r0 == [Idle EXCEPT !.route = "POST /api/cookies/upload",
                               !.email = email,
                               !.sent = [trackers |-> 0, cookies |-> ncookies]]
        IN out' = IF ~snowflake_db
                  THEN Unavailable(r0)
                  ELSE Response([r0 EXCEPT !.cookies_inserted = insert_cookies(ncookies, email)],
                                200, TRUE, "")
    /\ UNCHANGED <<probe, snowflake_db, autocommit, tracker_db, URL_DATA, blocklist, req, leaked,
                   prev, stamps, now, view, report>>

----------------------------------------------------------------------------
(* Blocklist: SnowflakeDB.get_blocklist / add_to_blocklist / remove_from_blocklist *)
(* and the routes GET and POST /api/blocklist                                     *)

AdsDomain == <<"a","d","s",".","x">>
LongDomain == Rep("a", DomainCol + 1)
BlockDomains == {AdsDomain, LongDomain, Slice(LongDomain, DomainCol)}

\* VALUES (%s, %s, %s) with (domain[:255], user_email[:255], reason[:255]);
\* the reason plays no part in any statement's WHERE clause and is left out
BlockRow(domain, user_email) ==
    [domain |-> Slice(domain, DomainCol), user_email |-> Slice(user_email, DomainCol)]

\* WHERE domain = %s AND user_email = %s with (domain, user_email)
Matching(table, domain, user_email) ==
    {i \in 1..Len(table) : table[i].domain = domain /\ table[i].user_email = user_email}

\* DELETE FROM blocklist WHERE domain = %s AND user_email = %s
DeleteRows(table, domain, user_email) ==
    LET keep == Ascending((1..Len(table)) \ Matching(table, domain, user_email))
    IN [k \in 1..Len(keep) |-> table[keep[k]]]

\* SELECT domain FROM blocklist WHERE user_email = %s
DomainsOf(table, user_email) ==
    LET mine == Ascending({i \in 1..Len(table) : table[i].user_email = user_email})
    IN [k \in 1..Len(mine) |-> table[mine[k]].domain]

\* connections held open by an add_to_blocklist between its SELECT and its INSERT
Held == Cardinality({p \in Workers : req[p].pc = "add_insert"})

\* every connection open now
openConns == leaked + Held

\* POST /api/blocklist up to the existence check of add_to_blocklist
add_to_blocklist(p, emails, domains, outcomes) ==
    /\ req[p].pc = "idle"
    /\ \E email \in emails, domain \in domains, fault \in outcomes \ {"commit"} :
        LET r0 == [Idle EXCEPT !.route = "POST /api/blocklist", !.domain = domain,
                               !.email = email, !.follows = prev]
            r1 == [r0 EXCEPT !.opened = OpenedBy(fault) > 0,
                             !.stmts = fault \notin {"connect", "cursor"}]
            found == Matching(blocklist, domain, email) # {}
        IN
        /\ Len(blocklist) + Held < MaxBlockRows
        /\ IF ~snowflake_db
           THEN /\ fault = "ok"
                /\ out' = Unavailable(r0)
                /\ UNCHANGED <<req, leaked, prev>>
           ELSE /\ leaked + LeakedBy(fault) <= MaxLeaks
                /\ leaked' = leaked + LeakedBy(fault)
                /\ IF fault \in {"connect", "cursor", "execute"}
                   THEN /\ out' = Response(r1, 500, FALSE, "Error adding to blocklist")
                        /\ prev' = None
                        /\ UNCHANGED req
                   ELSE IF found
                   THEN /\ fault = "ok"
                        /\ out' = Response(r1, 200, TRUE, "Domain already in blocklist")
                        /\ prev' = None
                        /\ UNCHANGED req
                   ELSE /\ fault = "ok"
                        /\ req' = [req EXCEPT ![p] = [r1 EXCEPT !.pc = "add_insert"]]
                        /\ out' = NoOut
                        /\ UNCHANGED prev
    /\ UNCHANGED <<probe, snowflake_db, autocommit, tracker_db, URL_DATA, blocklist,
                   stamps, now, view, report>>

\* add_to_blocklist from the INSERT on, and the route's answer
add_insert(p, outcomes) ==
    /\ req[p].pc = "add_insert"
    /\ \E fault \in outcomes \ {"connect", "cursor"} :
        LET r == req[p]
            added == Append(blocklist, BlockRow(r.domain, r.email))
        IN
        /\ leaked + LeakedBy(fault) <= MaxLeaks
        /\ leaked' = leaked + LeakedBy(fault)
        /\ blocklist' = IF fault = "execute" THEN blocklist
                        ELSE IF fault = "commit" THEN AfterRollback(autocommit, blocklist, added)
                        ELSE added
        /\ out' = IF fault = "ok"
                  THEN Response(r, 200, TRUE, "Domain added to blocklist")
                  ELSE Response(r, 500, FALSE, "Error adding to blocklist")
        /\ prev' = IF fault = "ok" THEN [domain |-> r.domain, email |-> r.email] ELSE None
        /\ req' = [req EXCEPT ![p] = Idle]
    /\ UNCHANGED <<probe, snowflake_db, autocommit, tracker_db, URL_DATA, stamps, now, view, report>>

\* SnowflakeDB.remove_from_blocklist (no route calls it): DELETE, commit, and the
\* answer rowcount > 0; there is no except clause, so a failed commit leaves the
\* DELETE to the session mode
remove_from_blocklist(p, emails, domains, outcomes) ==
    /\ req[p].pc = "idle"
    /\ snowflake_db
    /\ \E email \in emails, domain \in domains, fault \in outcomes :
        LET r == [Idle EXCEPT !.route = "remove_from_blocklist", !.domain = domain,
                              !.email = email, !.follows = prev,
                              !.opened = OpenedBy(fault) > 0,
                              !.stmts = fault \notin {"connect", "cursor"}]
            deleted == DeleteRows(blocklist, domain, email)
        IN
        /\ leaked + LeakedBy(fault) <= MaxLeaks
        /\ leaked' = leaked + LeakedBy(fault)
        /\ blocklist' = IF fault \in {"connect", "cursor", "execute"} THEN blocklist
                        ELSE IF fault = "commit" THEN AfterRollback(autocommit, blocklist, deleted)
                        ELSE deleted
        /\ out' = IF fault = "ok"
                  THEN Response(r, 200, Matching(blocklist, domain, email) # {}, "")
                  ELSE Response(r, 500, FALSE, "raised")
        /\ prev' = None
    /\ UNCHANGED <<probe, snowflake_db, autocommit, tracker_db, URL_DATA, req,
                   stamps, now, view, report>>

\* GET /api/blocklist
get_blocklist(p, emails, outcomes) ==
    /\ req[p].pc = "idle"
    /\ \E email \in emails, fault \in outcomes \ {"commit"} :
        LET r0 == [Idle EXCEPT !.route = "GET /api/blocklist", !.email = email,
                               !.follows = prev]
            r1 == [r0 EXCEPT !.opened = OpenedBy(fault) > 0,
                             !.stmts = fault \notin {"connect", "cursor"}]
        IN IF ~snowflake_db
           THEN /\ fault = "ok"
                /\ out' = Response(r0, 503, FALSE, "Database not available")
                /\ UNCHANGED <<leaked, prev>>
           ELSE /\ leaked + LeakedBy(fault) <= MaxLeaks
                /\ leaked' = leaked + LeakedBy(fault)
                /\ out' = IF fault = "ok"
                          THEN [Response(r1, 200, TRUE, "") EXCEPT
                                    !.domains = DomainsOf(blocklist, email)]
                          ELSE Response(r1, 500, FALSE, "Error fetching blocklist")
                /\ prev' = None
    /\ UNCHANGED <<probe, snowflake_db, autocommit, tracker_db, URL_DATA, blocklist, req,
                   stamps, now, view, report>>

----------------------------------------------------------------------------
(* The service after startup: uploads and their inline backfill *)

----------------------------------------------------------------------------
(* Dashboard series.  stamps is the CREATED_AT column of URL_DATA, one instant per
   stored row in insertion order; now is the clock; a calendar date is the number
   of the day an instant falls in, which is what TO_CHAR(.., 'YYYY-MM-DD') and
   date.isoformat() both render. *)

DateOf(t) == t \div TicksPerDay

\* SELECT TO_CHAR(CREATED_AT, 'YYYY-MM-DD') AS DATE, COUNT(*) ... WHERE CREATED_AT >=
\* DATEADD(day, -days, CURRENT_TIMESTAMP()) GROUP BY DATE ORDER BY DATE
DailyRows(created, clock, days) ==
    LET recent == {i \in 1..Len(created) : created[i] >= clock - days * TicksPerDay}
        dates == Ascending({DateOf(created[i]) : i \in recent})
    IN [k \in 1..Len(dates) |->
          [DATE |-> dates[k],
           COUNT |-> Cardinality({i \in recent : DateOf(created[i]) = dates[k]})]]

get_trends_data(created, clock, days) == DailyRows(created, clock, days)

\* the dailyEvents part of get_overview_stats
get_overview_stats(created, clock) == DailyRows(created, clock, OverviewWindow)

\* {row["DATE"]: row[...] for row in rows}
DictOf(rows) ==
    [d \in {rows[k].DATE : k \in 1..Len(rows)} |->
        (CHOOSE k \in 1..Len(rows) :
            /\ rows[k].DATE = d
            /\ \A j \in (k + 1)..Len(rows) : rows[j].DATE # d)]

\* random.randint(lo, hi), n times over: the draws told apart are all low, all high
\* and alternating
Draws(lo, hi, n) ==
    {[k \in 1..n |-> lo], [k \in 1..n |-> hi],
     [k \in 1..n |-> IF k % 2 = 1 THEN lo ELSE hi]}

OverviewLo == 80
OverviewHi == 250
TrendsLo == 30
TrendsHi == 90
CookieLo == 10
CookieHi == 50

\* a loop that leaves today out: range(window - 1, 0, -1)
tracker_series_short(today, window, rows, draws) ==
    LET real == DictOf(rows)
    IN [k \in 1..(window - 1) |->
          LET day == today - (window - k)
          IN IF day \in DOMAIN real
             THEN [date |-> day, count |-> rows[real[day]].COUNT, isReal |-> TRUE]
             ELSE [date |-> day, count |-> draws[k], isReal |-> FALSE]]

\* the loop of get_overview / get_trends over range(window - 1, -1, -1)
tracker_series(today, window, rows, draws) ==
    LET real == DictOf(rows)
    IN [k \in 1..window |->
          LET day == today - (window - k)
          IN IF day \in DOMAIN real
             THEN [date |-> day, count |-> rows[real[day]].COUNT, isReal |-> TRUE]
             ELSE [date |-> day, count |-> draws[k], isReal |-> FALSE]]

\* a cookie series that passes its draws off as real
cookie_series_real(today, window, draws) ==
    [k \in 1..window |-> [date |-> today - (window - k), count |-> draws[k],
                          isReal |-> TRUE]]

\* the cookie half of the loop of get_trends: always a draw, never real
cookie_series(today, window, draws) ==
    [k \in 1..window |-> [date |-> today - (window - k), count |-> draws[k],
                          isReal |-> FALSE]]

NoView == [route |-> "", status |-> 0, window |-> 0, rows |-> <<>>,
           trackerDaily |-> <<>>, cookieDaily |-> <<>>]

\* a row is stored: CREATED_AT takes the clock's value
store_row ==
    /\ snowflake_db
    /\ Len(stamps) < MaxStamps
    /\ stamps' = Append(stamps, now)
    /\ view' = NoView
    /\ UNCHANGED <<probe, snowflake_db, autocommit, tracker_db, URL_DATA, blocklist, req, leaked,
                   out, prev, now, report>>

\* time passes
tick ==
    /\ now < MaxNow
    /\ now' = now + 1
    /\ view' = NoView
    /\ UNCHANGED <<probe, snowflake_db, autocommit, tracker_db, URL_DATA, blocklist, req, leaked,
                   out, prev, stamps, report>>

\* GET /api/trends?days=
get_trends ==
    /\ \E days \in 1..MaxDays :
        IF ~snowflake_db
        THEN view' = [NoView EXCEPT !.route = "GET /api/trends", !.status = 503,
                                    !.window = days]
        ELSE \E td \in Draws(TrendsLo, TrendsHi, days), cd \in Draws(CookieLo, CookieHi, days) :
               LET data == get_trends_data(stamps, now, days)
                   today == DateOf(now)
               IN view' = [route |-> "GET /api/trends", status |-> 200, window |-> days,
                           rows |-> data,
                           trackerDaily |-> tracker_series(today, days, data, td),
                           cookieDaily |-> cookie_series(today, days, cd)]
    /\ UNCHANGED <<probe, snowflake_db, autocommit, tracker_db, URL_DATA, blocklist, req, leaked,
                   out, prev, stamps, now, report>>

\* GET /api/overview, its timeSeries
get_overview ==
    /\ IF ~snowflake_db
       THEN view' = [NoView EXCEPT !.route = "GET /api/overview", !.status = 503,
                                   !.window = OverviewWindow]
       ELSE \E td \in Draws(OverviewLo, OverviewHi, OverviewWindow) :
              LET data == get_overview_stats(stamps, now)
                  today == DateOf(now)
              IN view' = [route |-> "GET /api/overview", status |-> 200,
                          window |-> OverviewWindow, rows |-> data,
                          trackerDaily |-> tracker_series(today, OverviewWindow, data, td),
                          cookieDaily |-> <<>>]
    /\ UNCHANGED <<probe, snowflake_db, autocommit, tracker_db, URL_DATA, blocklist, req, leaked,
                   out, prev, stamps, now, report>>

----------------------------------------------------------------------------
(* The statements of the dashboard reads.  A statement is its SQL text, cut into pieces
   so that each placeholder and each owning-user predicate is one piece, and the
   parameters passed with it. *)

Placeholder == "%s"
WhereEmail == " WHERE EMAIL_ID = "
AndEmail == " AND EMAIL_ID = "

\* email_filter = " WHERE EMAIL_ID = %s" if email else ""
email_filter(email) == IF email # <<>> THEN <<WhereEmail, Placeholder>> ELSE <<>>

\* email_and = " AND EMAIL_ID = %s" if email else ""
email_and(email) == IF email # <<>> THEN <<AndEmail, Placeholder>> ELSE <<>>

\* params that never leave the email out
params_always(email) == <<email>>

\* params = (email,) if email else ()
params(email) == IF email # <<>> THEN <<email>> ELSE <<>>

Statement(text, parameters) == [text |-> text, params |-> parameters]

\* the four statements of get_overview_stats, in the order executed
overview_statements(email) ==
    << Statement(<<"SELECT COUNT(*) as TOTAL FROM URL_DATA">> \o email_filter(email),
                 params(email)),
       Statement(<<"SELECT COUNT(DISTINCT INITIATOR) ... WHERE INITIATOR != ''">>
                     \o email_and(email), params(email)),
       Statement(<<"SELECT TO_CHAR(CREATED_AT) ... WHERE CREATED_AT >= DATEADD(day, -7, ..)">>
                     \o email_and(email) \o <<" GROUP BY ... ORDER BY DATE">>,
                 params(email)),
       Statement(<<"SELECT COALESCE(..) as CATEGORY, COUNT(*) ... FROM URL_DATA">>
                     \o email_filter(email) \o <<" GROUP BY ... ORDER BY COUNT DESC">>,
                 params(email)) >>

\* the statement of get_trends_data: params = (days, email) if email else (days,)
trends_statements(days, email) ==
    << Statement(<<"SELECT TO_CHAR(CREATED_AT) ... WHERE CREATED_AT >= DATEADD(day, -",
                   Placeholder, ", CURRENT_TIMESTAMP())">>
                     \o email_and(email) \o <<" GROUP BY ... ORDER BY DATE">>,
                 IF email # <<>> THEN <<days, email>> ELSE <<days>>) >>

\* the five statements of get_breakdown_stats
breakdown_statements(email) ==
    << Statement(<<"SELECT COUNT(*) as TOTAL FROM URL_DATA">> \o email_filter(email),
                 params(email)),
       Statement(<<"SELECT INITIATOR, SUM(OCCURRENCES) ... WHERE INITIATOR != ''">>
                     \o email_and(email) \o <<" GROUP BY INITIATOR ... LIMIT 5">>,
                 params(email)),
       Statement(<<"SELECT DOMAIN_NAME, COMPANY, SUM(OCCURRENCES) ... FROM URL_DATA">>
                     \o email_filter(email) \o <<" GROUP BY ... LIMIT 5">>, params(email)),
       Statement(<<"SELECT COALESCE(..) as COMPANY, DOMAIN_NAME, ... FROM URL_DATA">>
                     \o email_filter(email) \o <<" GROUP BY ... ORDER BY COMPANY">>,
                 params(email)),
       Statement(<<"SELECT ID, DOMAIN_NAME, ... FROM URL_DATA">>
                     \o email_filter(email) \o <<" ORDER BY CREATED_AT DESC LIMIT 500">>,
                 params(email)) >>

\* the rows of the table a statement's owning-user predicate lets through: all of them
\* when the text has none, else those whose EMAIL_ID is the parameter bound to it (the
\* last one)
Admitted(table, statement) ==
    IF \E k \in 1..Len(statement.text) : statement.text[k] \in {WhereEmail, AndEmail}
    THEN {i \in 1..Len(table) :
            statement.params # <<>> /\ table[i].EMAIL_ID = statement.params[Len(statement.params)]}
    ELSE 1..Len(table)

\* a direct call of one of the three dashboard reads
call_stats(emails) ==
    /\ snowflake_db
    /\ \E email \in emails, days \in 1..MaxDays,
          fn \in {"get_overview_stats", "get_trends_data", "get_breakdown_stats"} :
         LET statements == IF fn = "get_overview_stats" THEN overview_statements(email)
                           ELSE IF fn = "get_trends_data" THEN trends_statements(days, email)
                           ELSE breakdown_statements(email)
         IN probe' = [NoProbe EXCEPT
                        !.fn = fn, !.arg = email,
                        !.result = [k \in 1..Len(statements) |->
                                      [text |-> statements[k].text,
                                       params |-> statements[k].params,
                                       rows |-> Admitted(URL_DATA, statements[k])]]]
    /\ UNCHANGED <<snowflake_db, autocommit, tracker_db, URL_DATA, blocklist, req, leaked,
                   out, prev, stamps, now, view, report>>

----------------------------------------------------------------------------
(* The security report: what the route does with the text the model returns *)

Whitespace == {" ", "\n", "\t"}
Digits == {"0", "1", "2", "3", "4", "5", "6", "7", "8", "9"}
\* the grave accent (U+0060), which a TLA+ string cannot hold, under a name
Backtick == "U+0060"
Fence == <<Backtick, Backtick, Backtick>>
Quote == "\""

\* str.strip()
RECURSIVE Strip(_)
Strip(s) ==
    IF s = <<>> THEN s
    ELSE IF s[1] \in Whitespace THEN Strip(Tail(s))
    ELSE IF s[Len(s)] \in Whitespace THEN Strip(Slice(s, Len(s) - 1))
    ELSE s

\* s.split(c, 1): one part when c is not in s, else the parts before and after its
\* first occurrence
Split1(s, c) ==
    IF \E i \in 1..Len(s) : s[i] = c
    THEN <<BeforeFirst(s, c), Drop(s, Len(BeforeFirst(s, c)) + 1)>>
    ELSE <<s>>

\* s.split(c)
RECURSIVE SplitAll(_, _)
SplitAll(s, c) ==
    IF Len(Split1(s, c)) = 1 THEN <<s>>
    ELSE <<Split1(s, c)[1]>> \o SplitAll(Split1(s, c)[2], c)

IsNumber(t) == t # <<>> /\ \A i \in 1..Len(t) : t[i] \in Digits

IsString(t) ==
    /\ Len(t) >= 2
    /\ t[1] = Quote
    /\ t[Len(t)] = Quote
    /\ \A i \in 2..(Len(t) - 1) : t[i] # Quote

\* the text between the first and the last character
Inner(t) == SubSeq(t, 2, Len(t) - 1)

\* a JSON array of numbers
IsList(t) ==
    /\ Len(t) >= 2
    /\ t[1] = "["
    /\ t[Len(t)] = "]"
    /\ \/ Inner(t) = <<>>
       \/ \A k \in 1..Len(SplitAll(Inner(t), ",")) : IsNumber(SplitAll(Inner(t), ",")[k])

ListItems(t) == IF Inner(t) = <<>> THEN <<>> ELSE SplitAll(Inner(t), ",")

ScoresKey == <<Quote, "d", "o", "m", "a", "i", "n", "S", "c", "o", "r", "e", "s", Quote, ":">>

\* a JSON object: empty, or holding the one member "domainScores"
IsObject(t) ==
    /\ Len(t) >= 2
    /\ t[1] = "{"
    /\ t[Len(t)] = "}"
    /\ \/ Inner(t) = <<>>
       \/ /\ StartsWith(Inner(t), ScoresKey)
          /\ IsList(Drop(Inner(t), Len(ScoresKey)))

\* json.loads on the JSON texts the model tells apart: objects, arrays of numbers,
\* strings and numbers; anything else is a JSONDecodeError
json_loads(text) ==
    LET t == Strip(text)
    IN IF IsObject(t)
       THEN [ok |-> TRUE, kind |-> "dict",
             members |-> IF Inner(t) = <<>> THEN {} ELSE {"domainScores"},
             domainScores |-> IF Inner(t) = <<>> THEN <<>>
                              ELSE ListItems(Drop(Inner(t), Len(ScoresKey)))]
       ELSE IF IsList(t) THEN [ok |-> TRUE, kind |-> "list", members |-> {},
                               domainScores |-> <<>>]
       ELSE IF IsString(t) THEN [ok |-> TRUE, kind |-> "str", members |-> {},
                                 domainScores |-> <<>>]
       ELSE IF IsNumber(t) THEN [ok |-> TRUE, kind |-> "int", members |-> {},
                                 domainScores |-> <<>>]
       ELSE [ok |-> FALSE, kind |-> "", members |-> {}, domainScores |-> <<>>]

ParseFailed == "Failed to parse AI response"
ReportFailed == "Error generating security report"
NoData == "No tracking data found for this period. Your browsing appears clean!"
AnalysisDone == "Analysis complete."
CleanScore == 100
DefaultScore == 50
TopN == 3

\* the last request to a route that asks the generative model: its answer, and how
\* many calls to the client it issued, how many domain statistics the warehouse
\* returned to it, whether the model answered (called) and with what text
NoReport == [route |-> "", status |-> 0, detail |-> "", calls |-> 0, domains |-> 0,
             gemini_key |-> FALSE,
             called |-> FALSE, text |-> <<>>, body |-> <<>>,
             overallScore |-> 0, summary |-> "", top3Least |-> <<>>,
             domainScores |-> <<>>]

\* model.generate_content(prompt) of the security report: one more call to the client,
\* which raises or hands back the text of the model
generate_content(calls, answer) ==
    [calls |-> calls + 1, raised |-> answer.raised, text |-> answer.text]

Failure(rep, detail) == [rep EXCEPT !.status = 500, !.detail = detail]

\* a report that hands back every score as the least secure ones
ParseReportUncut(rep, text) ==
    LET result == json_loads(Strip(text))
    IN IF ~result.ok \/ result.kind # "dict" THEN Failure(rep, ParseFailed)
       ELSE [rep EXCEPT !.status = 200,
                        !.overallScore = DefaultScore,
                        !.summary = AnalysisDone,
                        !.top3Least = result.domainScores,
                        !.domainScores = result.domainScores]

\* get_security_report from the answer of the model on: fence stripping, json.loads, the
\* reads of the result, and the two except clauses
ParseReport(rep, text) ==
    LET response_text == Strip(text)
        fenced == StartsWith(response_text, Fence)
        parts == Split1(response_text, "\n")
        body == IF EndsWith(parts[2], Fence)
                THEN Strip(Slice(parts[2], Len(parts[2]) - Len(Fence)))
                ELSE parts[2]
        result == json_loads(IF fenced THEN body ELSE response_text)
        all_scores == result.domainScores
    IN IF fenced /\ Len(parts) = 1 THEN Failure(rep, ReportFailed)
       ELSE IF ~result.ok THEN Failure(rep, ParseFailed)
       ELSE IF result.kind # "dict" THEN Failure(rep, ReportFailed)
       ELSE [rep EXCEPT !.status = 200,
                        !.overallScore = DefaultScore,
                        !.summary = AnalysisDone,
                        !.top3Least = IF Len(all_scores) >= TopN
                                      THEN Slice(all_scores, TopN) ELSE all_scores,
                        !.domainScores = all_scores]

\* SnowflakeDB.get_security_report_data, which the route calls: the per-domain
\* statistics of the user's rows
get_security_report_data(table, email) ==
    LET mine == {i \in 1..Len(table) : table[i].EMAIL_ID = email}
        doms == Ascending({i \in mine : \A j \in mine :
                              table[j].DOMAIN_NAME = table[i].DOMAIN_NAME => i <= j})
    IN [domainStats |-> [k \in 1..Len(doms) |->
                           [DOMAIN_NAME |-> table[doms[k]].DOMAIN_NAME,
                            COMPANY |-> table[doms[k]].COMPANY,
                            CATEGORY |-> table[doms[k]].CATEGORY]],
        totalTrackers |-> Cardinality(mine)]

\* a missing key answered with a body instead of an exception
NoKeySoft(rep) == [rep EXCEPT !.status = 200, !.detail = "GEMINI_API_KEY not configured in .env"]

\* GEMINI_API_KEY is empty: the HTTPException raised inside the try is caught by the
\* last except clause and raised again as the 500 of a failed report
NoKey(rep) == Failure(rep, ReportFailed)

\* what the model may answer
Prose == <<"o", "k">>
FenceOnly == Fence \o <<"j", "s", "o", "n">>
FencedProse == Fence \o <<"\n", "o", "k", "\n">> \o Fence
ListText == <<"[", "1", "]">>
StringText == <<Quote, "s", Quote>>
ObjectText == <<"{", "}">>
FencedObject == Fence \o <<"j", "s", "o", "n", "\n", "{", "}", "\n">> \o Fence \o <<"\n">>
ScoresObject == <<"{">> \o ScoresKey \o <<"[", "1", ",", "2", ",", "3", ",", "4", "]", "}">>
TwoScoresObject == <<"{">> \o ScoresKey \o <<"[", "7", ",", "8", "]", "}">>
NotObject == {Prose, FenceOnly, FencedProse, ListText, StringText}
ObjectTexts == {ObjectText, FencedObject, ScoresObject, TwoScoresObject}
ModelTexts == NotObject \cup ObjectTexts

\* GET /api/security-report
get_security_report(emails, texts) ==
    /\ \E email \in emails, gemini_key \in BOOLEAN, text \in texts, answered \in BOOLEAN :
        LET report_data == get_security_report_data(URL_DATA, email)
            r0 == [NoReport EXCEPT !.route = "GET /api/security-report",
                                   !.gemini_key = gemini_key]
            r1 == [r0 EXCEPT !.domains = Len(report_data.domainStats)]
            response == generate_content(0, [raised |-> ~answered, text |-> text])
            r2 == [r1 EXCEPT !.calls = response.calls]
        IN report' =
             IF ~snowflake_db
             THEN [r0 EXCEPT !.status = 503, !.detail = "Database not available"]
             ELSE IF report_data.domainStats = <<>>
             THEN [r1 EXCEPT !.status = 200, !.overallScore = CleanScore,
                             !.summary = NoData]
             ELSE IF ~gemini_key
             THEN NoKey(r1)
             ELSE IF response.raised
             THEN Failure(r2, ReportFailed)
             ELSE ParseReport([r2 EXCEPT !.called = TRUE, !.text = response.text],
                              response.text)
    /\ UNCHANGED <<probe, snowflake_db, autocommit, tracker_db, URL_DATA, blocklist, req, leaked,
                   out, prev, stamps, now, view>>

----------------------------------------------------------------------------
(* The summary service: backend/main.py and backend/modules/gemini.py *)

SummaryRoutes == {"GET /api/summary", "GET /api/gemini"}

\* what the client of the summary service can come back with: an exception, a response
\* without text (response.text is None), or a text
Answers(texts) ==
    {[raised |-> TRUE, has_text |-> FALSE, text |-> <<>>],
     [raised |-> FALSE, has_text |-> FALSE, text |-> <<>>]}
    \cup {[raised |-> FALSE, has_text |-> TRUE, text |-> t] : t \in texts}

\* an ask that calls the client again after a failure
ask_retrying(calls, answer) ==
    [calls |-> IF answer.raised THEN calls + 2 ELSE calls + 1,
     raised |-> answer.raised, has_text |-> answer.has_text, text |-> answer.text]

\* GeminiAI.ask: one generate_content call, whose exception it lets through, and
\* response.text returned as it is
ask(calls, answer) ==
    [calls |-> calls + 1,
     raised |-> answer.raised, has_text |-> answer.has_text, text |-> answer.text]

InternalError == "Internal Server Error"

\* GET /api/summary and GET /api/gemini: the two warehouse reads, the prompt, one ask,
\* and summary.strip(); nothing is caught, so whatever raises ends the request with
\* the 500 of the framework
get_summary(texts) ==
    /\ \E route \in SummaryRoutes, fault \in {"ok", "connect", "execute"},
          answer \in Answers(texts) :
        LET r0 == [NoReport EXCEPT !.route = route]
            summary == ask(0, answer)
            r1 == [r0 EXCEPT !.calls = summary.calls]
        IN report' =
             IF fault # "ok" THEN Failure(r0, InternalError)
             ELSE IF summary.raised THEN Failure(r1, InternalError)
             ELSE IF ~summary.has_text
             THEN Failure([r1 EXCEPT !.called = TRUE], InternalError)
             ELSE [r1 EXCEPT !.called = TRUE, !.text = summary.text, !.status = 200,
                             !.body = Strip(summary.text)]
    /\ UNCHANGED <<probe, snowflake_db, autocommit, tracker_db, URL_DATA, blocklist, req, leaked,
                   out, prev, stamps, now, view>>
----------------------------------------------------------------------------
(* The service from the start of the process: the globals of api.py are None until
   startup_event has run *)

\* a startup that keeps a handle whatever the first connection did
HandleAlways(fault) == TRUE

\* snowflake_db after startup_event: SnowflakeDB() raises when its first connection
\* fails, startup_event logs it and leaves the global None
HandleAfter(fault) == fault = "ok"

\* startup_event: the matcher downloads its table, then the warehouse client is built
startup_event(downloads, outcomes) ==
    /\ probe = NoProbe
    /\ \E download \in downloads, fault \in outcomes :
         /\ tracker_db' = _load_database(download)
         /\ snowflake_db' = HandleAfter(fault)
         /\ probe' = [NoProbe EXCEPT !.fn = "startup_event", !.download = download.kind,
                                     !.result = fault]
    /\ UNCHANGED <<autocommit, URL_DATA, blocklist, req, leaked, out, prev, stamps, now,
                   view, report>>

\* startup_event has run
Started == probe.fn = "startup_event"

\* the answer of a dashboard route: its status and its body
Body(route, status, body) ==
    [NoView EXCEPT !.route = route, !.status = status, !.rows = body]

\* GET /api/health
api_health ==
    /\ view' = Body("GET /api/health", 200,
                    <<[status |-> "ok",
                       database |-> IF snowflake_db THEN "connected" ELSE "disconnected"]>>)
    /\ UNCHANGED <<probe, snowflake_db, autocommit, tracker_db, URL_DATA, blocklist, req, leaked,
                   out, prev, stamps, now, report>>

\* the rows of a user, newest first (ORDER BY CREATED_AT DESC)
NewestFirst(table, ids) ==
    LET asc == Ascending(ids)
    IN [k \in 1..Len(asc) |-> table[asc[Len(asc) + 1 - k]]]

\* row["X"] or default
OrElse(x, default) == IF x = <<>> THEN default ELSE x

\* a dashboard read that makes warehouse calls: 503 without the handle, 500 when a
\* call raises, else the body
ReadRoute(route, fault, body) ==
    IF ~snowflake_db
    THEN /\ fault = "ok"
         /\ view' = Body(route, 503, <<>>)
         /\ UNCHANGED leaked
    ELSE /\ leaked + LeakedBy(fault) <= MaxLeaks
         /\ leaked' = leaked + LeakedBy(fault)
         /\ view' = IF fault = "ok" THEN Body(route, 200, body) ELSE Body(route, 500, <<>>)

\* GET /api/breakdown: totalTrackers and allTrackers (the other three lists are
\* regroupings of the same rows)
get_breakdown(emails, outcomes) ==
    /\ \E email \in emails, fault \in outcomes \ {"commit"} :
         LET mine == Admitted(URL_DATA, breakdown_statements(email)[5])
             rows == NewestFirst(URL_DATA, mine)
         IN ReadRoute("GET /api/breakdown", fault,
                      <<[totalTrackers |-> Cardinality(mine),
                         allTrackers |-> [k \in 1..Len(rows) |->
                             [domain |-> rows[k].DOMAIN_NAME,
                              company |-> OrElse(rows[k].COMPANY, Unknown),
                              category |-> OrElse(rows[k].CATEGORY, Lower(Unknown)),
                              occurrences |-> rows[k].OCCURRENCES]]]>>)
    /\ UNCHANGED <<probe, snowflake_db, autocommit, tracker_db, URL_DATA, blocklist, req,
                   out, prev, stamps, now, report>>

\* GET /api/cookies: get_cookies and get_cookie_stats over COOKIES_DATA, which no
\* operation of the service writes
get_cookies(emails, outcomes) ==
    /\ \E email \in emails, fault \in outcomes \ {"commit"} :
         ReadRoute("GET /api/cookies", fault,
                   <<[cookies |-> <<>>, stats |-> [total_cookies |-> 0]]>>)
    /\ UNCHANGED <<probe, snowflake_db, autocommit, tracker_db, URL_DATA, blocklist, req,
                   out, prev, stamps, now, report>>

\* GET /api/trackers/history: get_trackers and get_tracker_stats for the email
get_tracker_history(emails, outcomes) ==
    /\ \E email \in emails, fault \in outcomes \ {"commit"} :
         LET mine == {i \in 1..Len(URL_DATA) : URL_DATA[i].EMAIL_ID = email}
             rows == NewestFirst(URL_DATA, mine)
             groups == {<<URL_DATA[i].COMPANY, URL_DATA[i].CATEGORY>> : i \in mine}
         IN ReadRoute("GET /api/trackers/history", fault,
                      <<[trackers |-> rows,
                         stats |-> {[COMPANY |-> g[1], CATEGORY |-> g[2],
                                     count |-> Cardinality({i \in mine :
                                        <<URL_DATA[i].COMPANY, URL_DATA[i].CATEGORY>> = g})]
                                    : g \in groups}]>>)
    /\ UNCHANGED <<probe, snowflake_db, autocommit, tracker_db, URL_DATA, blocklist, req,
                   out, prev, stamps, now, report>>

\* the methods class TrackerEnricher defines
TrackerEnricherMethods == {"__init__", "_load_database", "enrich", "_clean_domain", "_get_category"}

\* the three routes of the matcher: 503 while the global is None; else the method is
\* looked up on the TrackerEnricher object, an AttributeError being caught by the
\* route's except clause and raised again as 500
MatcherRoute(route, method, detail, body) ==
    view' = IF ~Started
            THEN Body(route, 503, <<[detail |-> "Tracker database not initialized"]>>)
            ELSE IF method \notin TrackerEnricherMethods
            THEN Body(route, 500, <<[detail |-> detail]>>)
            ELSE Body(route, 200, body)

\* POST /identify
identify_tracker(domains) ==
    /\ \E domain \in domains :
         MatcherRoute("POST /identify", "identify", "Error identifying domain", <<domain>>)
    /\ UNCHANGED <<probe, snowflake_db, autocommit, tracker_db, URL_DATA, blocklist, req, leaked,
                   out, prev, stamps, now, report>>

\* POST /identify/batch
identify_trackers_batch(domains) ==
    /\ \E d1 \in domains, d2 \in domains :
         MatcherRoute("POST /identify/batch", "identify_batch", "Error identifying domains",
                      <<d1, d2>>)
    /\ UNCHANGED <<probe, snowflake_db, autocommit, tracker_db, URL_DATA, blocklist, req, leaked,
                   out, prev, stamps, now, report>>

\* GET /stats
get_database_stats ==
    /\ MatcherRoute("GET /stats", "get_stats", "Error retrieving stats",
                    <<[total_companies |-> Len(tracker_db)]>>)
    /\ UNCHANGED <<probe, snowflake_db, autocommit, tracker_db, URL_DATA, blocklist, req, leaked,
                   out, prev, stamps, now, report>>

\* how a read of the dashboard can end: normally, or with execute() raising
ReadFaults == {"ok", "execute"}

\* what the download of the table can give at startup
BootDownloads == {[kind |-> "ok", body |-> GoogleTable], [kind |-> "Timeout", body |-> <<>>]}

\* the process before startup_event: both globals are None
InitBoot ==
    /\ snowflake_db = FALSE
    /\ autocommit \in BOOLEAN
    /\ tracker_db = <<>>
    /\ URL_DATA = <<>>
    /\ blocklist = <<>>
    /\ req = [p \in Workers |-> Idle]
    /\ leaked = 0
    /\ out = NoOut
    /\ prev = None
    /\ stamps = <<>>
    /\ now = 0
    /\ view = NoView
    /\ report = NoReport
    /\ probe = NoProbe

\* startup_event: the matcher is always built; the warehouse handle only if the
\* first connection succeeds
Init ==
    /\ snowflake_db \in BOOLEAN
    /\ autocommit \in BOOLEAN
    /\ tracker_db = GoogleTable
    /\ URL_DATA = <<>>
    /\ blocklist = <<>>
    /\ req = [p \in Workers |-> Idle]
    /\ leaked = 0
    /\ out = NoOut
    /\ prev = None
    /\ stamps = <<>>
    /\ now = 0
    /\ view = NoView
    /\ report = NoReport
    /\ probe = NoProbe

\* one worker, every input and every warehouse failure
Next ==
    \/ upload_tracker_data(1, Users, Batches, Outcomes)
    \/ enrich_select(1, Outcomes)
    \/ enrich_row(1, Outcomes)
    \/ upload_cookie_data(1, Users)

Spec == Init /\ [][Next]_vars

\* two workers whose uploads and backfills interleave; the warehouse does not fail
NextRace ==
    \E p \in Workers :
        \/ upload_tracker_data(p, {UserA}, RaceBatches, NoFault)
        \/ enrich_select(p, NoFault)
        \/ enrich_row(p, NoFault)

SpecRace == Init /\ [][NextRace]_vars

\* the blocklist, one request at a time, with every warehouse failure
NextBlocklist ==
    \/ add_to_blocklist(1, Users, BlockDomains, Outcomes)
    \/ add_insert(1, Outcomes)
    \/ remove_from_blocklist(1, Users, BlockDomains, Outcomes)
    \/ get_blocklist(1, Users, Outcomes)

SpecBlocklist == Init /\ [][NextBlocklist]_vars

\* two workers adding and removing the same short domains; the warehouse does not fail
NextBlockRace ==
    \E p \in Workers :
        \/ add_to_blocklist(p, Users, {AdsDomain}, NoFault)
        \/ add_insert(p, NoFault)
        \/ remove_from_blocklist(p, Users, {AdsDomain}, NoFault)

SpecBlockRace == Init /\ [][NextBlockRace]_vars

\* every route that writes, one request at a time; the warehouse does not fail
NextRoutes ==
    \/ upload_tracker_data(1, {UserA}, RaceBatches, NoFault)
    \/ enrich_select(1, NoFault)
    \/ enrich_row(1, NoFault)
    \/ upload_cookie_data(1, Users)
    \/ add_to_blocklist(1, Users, {AdsDomain}, NoFault)
    \/ add_insert(1, NoFault)
    \/ get_blocklist(1, Users, NoFault)

SpecRoutes == Init /\ [][NextRoutes]_vars

\* the dashboards over a warehouse that fills up as time passes
NextTrends ==
    \/ store_row
    \/ tick
    \/ get_trends
    \/ get_overview

SpecTrends == Init /\ [][NextTrends]_vars

\* the same dashboards watched over a shorter time, long enough for rows to leave the
\* longest trends window
NextSeries ==
    \/ store_row
    \/ now < 3 * MaxDays /\ tick
    \/ get_trends
    \/ get_overview

SpecSeries == Init /\ [][NextSeries]_vars

\* the security report over a warehouse that uploads fill
NextReport ==
    \/ upload_tracker_data(1, Users, RaceBatches, NoFault)
    \/ enrich_select(1, NoFault)
    \/ enrich_row(1, NoFault)
    \/ get_security_report(Users, ModelTexts)

SpecReport == Init /\ [][NextReport]_vars

\* the routes that ask the generative model, over a warehouse that uploads fill
NextAI ==
    \/ upload_tracker_data(1, Users, OwnerBatches, NoFault)
    \/ enrich_select(1, NoFault)
    \/ enrich_row(1, NoFault)
    \/ get_security_report(Users, ModelTexts)
    \/ get_summary(ModelTexts)

SpecAI == Init /\ [][NextAI]_vars

\* the process from its start: startup_event, then uploads and every read route
NextBoot ==
    \/ startup_event(BootDownloads, {"ok", "connect"})
    \/ Started /\ upload_tracker_data(1, {UserA}, OwnerBatches, NoFault)
    \/ Started /\ enrich_select(1, NoFault)
    \/ Started /\ enrich_row(1, NoFault)
    \/ Started /\ api_health
    \/ Started /\ get_blocklist(1, {UserA}, NoFault)
    \/ Started /\ get_overview
    \/ Started /\ get_trends
    \/ Started /\ get_breakdown({UserA}, ReadFaults)
    \/ Started /\ get_cookies({UserA}, ReadFaults)
    \/ Started /\ get_tracker_history({UserA}, ReadFaults)
    \/ Started /\ get_security_report({UserA}, {Prose})

SpecBoot == InitBoot /\ [][NextBoot]_vars

\* the routes of the matcher, before and after startup_event, next to uploads
NextIdentify ==
    \/ startup_event(BootDownloads, {"ok", "connect"})
    \/ Started /\ upload_tracker_data(1, {UserA}, OwnerBatches, NoFault)
    \/ Started /\ enrich_select(1, NoFault)
    \/ Started /\ enrich_row(1, NoFault)
    \/ identify_tracker({DoubleClick, XIo})
    \/ identify_trackers_batch({DoubleClick, XIo})
    \/ get_database_stats

SpecIdentify == InitBoot /\ [][NextIdentify]_vars

\* the matcher alone: one construction, then calls in any order
NextEnrich ==
    \/ construct(Downloads)
    \/ call_enrich(EnrichRecords)
    \/ call_clean_domain(EnrichDomains)
    \/ call_get_category(CompanyNames)

SpecEnrich == Init /\ [][NextEnrich]_vars

\* the dashboard reads over a warehouse that uploads of two users fill
NextStats ==
    \/ upload_tracker_data(1, Users, OwnerBatches, NoFault)
    \/ enrich_select(1, NoFault)
    \/ enrich_row(1, NoFault)
    \/ call_stats(Users \cup {<<>>})

SpecStats == Init /\ [][NextStats]_vars

\* every operation that touches the warehouse, one request at a time: uploads and
\* backfills with every warehouse failure, the blocklist and the dashboard reads
NextStore ==
    \/ upload_tracker_data(1, Users, UnlabelledBatches, Outcomes)
    \/ enrich_select(1, Outcomes)
    \/ enrich_row(1, Outcomes)
    \/ upload_cookie_data(1, Users)
    \/ add_to_blocklist(1, {UserA}, {AdsDomain}, NoFault)
    \/ add_insert(1, NoFault)
    \/ remove_from_blocklist(1, {UserA}, {AdsDomain}, NoFault)
    \/ get_blocklist(1, {UserA}, NoFault)

SpecStore == Init /\ [][NextStore]_vars

\* uploads that succeed, again and again: the warehouse does not fail, and every
\* upload, empty ones included, runs its backfill to the end
NextBackfill ==
    \/ upload_tracker_data(1, {UserA}, RaceBatches, NoFault)
    \/ enrich_select(1, NoFault)
    \/ enrich_row(1, NoFault)

\* weak fairness of the three steps; a turn of the loop is enabled exactly while the
\* worker is in the loop, and its fairness is written with that condition
FairBackfill ==
    /\ WF_vars(upload_tracker_data(1, {UserA}, {<<>>}, NoFault))
    /\ WF_vars(enrich_select(1, NoFault))
    /\ ([]<>(req[1].pc # "enrich_row") \/ []<><<enrich_row(1, NoFault)>>_vars)

SpecBackfill == Init /\ [][NextBackfill]_vars /\ FairBackfill

\* ---------------------------------------------------------------------------
\* Properties
\* ---------------------------------------------------------------------------

\* an answer of POST /api/blocklist to an add that directly follows a successful
\* add of the same (domain, email)
SecondAdd ==
    /\ out.route = "POST /api/blocklist"
    /\ out.status = 200
    /\ out.follows = [domain |-> out.domain, email |-> out.email]

\* C1: adding the same (domain, email) twice in a row leaves exactly one stored row for
\* the pair, the second add answering "already in blocklist" (add_to_blocklist
\* returned False), for every domain, those longer than 255 characters included.
C1_SecondAddRefused ==
    SecondAdd =>
        /\ out.message = "Domain already in blocklist"
        /\ Cardinality({i \in 1..Len(blocklist) :
                          blocklist[i] = BlockRow(out.domain, out.email)}) = 1

\* C2: whatever the interleaving of adds and removes, the blocklist never holds two
\* rows with equal (domain, user_email).
C2_OneRowPerPair ==
    \A i, j \in 1..Len(blocklist) : i # j => blocklist[i] # blocklist[j]

\* C3: no step replaces a non-empty COMPANY of a stored row, the literal 'Unknown'
\* included: enrichment only fills a company that is empty.
C3_CompanyKept ==
    [][\A i \in 1..Len(URL_DATA) :
          URL_DATA[i].COMPANY # <<>> =>
              /\ i <= Len(URL_DATA')
              /\ URL_DATA'[i].COMPANY = URL_DATA[i].COMPANY]_vars

\* an upload has stored a row whose company is 'Unknown', its backfill has read the
\* unlabeled rows (that row among them) and has gone through them
C3_UnknownVisited ==
    /\ out.route = "POST /api/trackers"
    /\ out.status = 200
    /\ out.backfill = "read"
    /\ out.call.stored = 1
    /\ Len(URL_DATA) = 1
    /\ URL_DATA[1].COMPANY = Unknown
    /\ URL_DATA[1].DOMAIN_NAME = DoubleClick

\* C4: under any interleaving of backfill runs, enrichment writes a row's company and
\* category at most once, and never replaces a category that was already non-empty.
C4_WrittenOnce ==
    [][/\ \A i \in 1..Len(URL_DATA') : URL_DATA'[i].ENRICH_WRITES <= 1
       /\ \A i \in 1..Len(URL_DATA) :
            URL_DATA[i].CATEGORY # <<>> => URL_DATA'[i].CATEGORY = URL_DATA[i].CATEGORY]_vars

\* the answer to an upload that carried no tracker and no cookie, handle present
EmptyUploadAnswered ==
    /\ out.route = "POST /api/trackers"
    /\ out.status = 200
    /\ out.success
    /\ out.sent = [trackers |-> 0, cookies |-> 0]

\* C5 as stated: an empty upload answers 0 and 0 without a connection being opened or a
\* statement being executed.
C5_EmptyUploadTouchesNothing ==
    EmptyUploadAnswered =>
        /\ out.trackers_inserted = 0
        /\ out.cookies_inserted = 0
        /\ ~out.opened
        /\ ~out.stmts

\* C5: an empty upload answers 0 and 0 and calls no insert operation, and its backfill
\* still runs: it opens a connection and reads the unlabeled rows unless that read fails.
C5_EmptyUploadOnlyBackfills ==
    EmptyUploadAnswered =>
        /\ out.trackers_inserted = 0
        /\ out.cookies_inserted = 0
        /\ out.call = NoCall
        /\ out.backfill \in {"read", "failed"}
        /\ out.backfill = "read" => out.opened /\ out.stmts

\* an empty upload has been answered after its backfill read the warehouse
C5_EmptyUploadRead ==
    /\ EmptyUploadAnswered
    /\ out.backfill = "read"
    /\ out.opened
    /\ out.stmts

\* C6: an insert_trackers call with n > 0 rows is all-or-nothing: when it returns, all n
\* rows are stored, commit was called and n is returned; when a row's conversion or
\* execute fails, rollback is called, none of the n rows is stored and the call raises.
C6_AllOrNothing ==
    out.call.n > 0 =>
        /\ ~out.call.raised =>
              /\ out.call.stored = out.call.n
              /\ out.call.commits = 1
              /\ out.call.inserted = out.call.n
        /\ out.call.failed_row > 0 =>
              /\ out.call.raised
              /\ out.call.rollbacks = 1
              /\ out.call.stored = 0

\* C7: between operations no connection is open: every operation closed the connection
\* it opened, on every exit path.
C7_NoOpenConnection ==
    Held = 0 => openConns = 0

\* C8: the entries of a tracker series marked isReal = false number at most the
\* window minus the distinct dates among the rows the warehouse returned.
C8_SyntheticBound ==
    view.status = 200 =>
        Cardinality({k \in 1..Len(view.trackerDaily) : ~view.trackerDaily[k].isReal})
            <= view.window - Cardinality({view.rows[k].DATE : k \in 1..Len(view.rows)})

\* C9: whenever the model's text is not a JSON object (prose, a single line that
\* begins with a fence, a fenced body that is not JSON, JSON that is not an object),
\* the security report fails with HTTP 500 and detail "Failed to parse AI response".
C9_OneParseError ==
    (report.called /\ report.text \in NotObject) =>
        /\ report.status = 500
        /\ report.detail = ParseFailed

\* the companies of the table holding a property equal to p
Holders(p) ==
    {i \in 1..Len(tracker_db) :
        \E j \in 1..Len(tracker_db[i].properties) : tracker_db[i].properties[j] = p}

\* the companies of the table holding a property that contains d or lies inside d
Related(d) ==
    {i \in 1..Len(tracker_db) :
        \E j \in 1..Len(tracker_db[i].properties) :
            \/ IsSubstr(d, tracker_db[i].properties[j])
            \/ IsSubstr(tracker_db[i].properties[j], d)}

\* enrich was called on a record whose company is empty
EnrichedEmpty == probe.fn = "enrich" /\ probe.arg.company = <<>>

\* C11 as stated: when exactly one company of the table has the property p, enrich on
\* domain p with empty company returns that company (Google and Advertising for
\* doubleclick.net).
C11_HolderReturned ==
    (EnrichedEmpty /\ Cardinality(Holders(probe.arg.domain)) = 1) =>
        \A i \in Holders(probe.arg.domain) :
            /\ probe.result.company = tracker_db[i].name
            /\ (tracker_db[i].name = Google => probe.result.category = Advertising)

\* C11: when exactly one company of the table has a property that contains the cleaned
\* domain or lies inside it, enrich with empty company returns that company; with the
\* table {Google: [doubleclick.net]} and domain doubleclick.net it returns Google and
\* Advertising.
C11_OnlyRelatedReturned ==
    EnrichedEmpty =>
        /\ Cardinality(Related(_clean_domain(probe.arg.domain))) = 1 =>
              \A i \in Related(_clean_domain(probe.arg.domain)) :
                  probe.result.company = tracker_db[i].name
        /\ (tracker_db = GoogleTable /\ probe.arg.domain = DoubleClick) =>
              /\ probe.result.company = Google
              /\ probe.result.category = Advertising

\* doubleclick.net was looked up in a table whose only related property is the shorter
\* click.net, and its holder was returned
C11_ShorterPropertyHit ==
    /\ EnrichedEmpty
    /\ probe.arg.domain = DoubleClick
    /\ Holders(DoubleClick) = {}
    /\ Cardinality(Related(DoubleClick)) = 1
    /\ probe.result.company = Acme

\* the host of a domain argument: no scheme in front, nothing from the first "/" on
HostOf(d) ==
    LET rest == IF StartsWith(d, Https) THEN Drop(d, Len(Https))
                ELSE IF StartsWith(d, Http) THEN Drop(d, Len(Http))
                ELSE d
    IN BeforeFirst(rest, "/")

\* the host with one leading "www." taken off
HostSansWww(d) == IF StartsWith(HostOf(d), Www) THEN Drop(HostOf(d), Len(Www)) ELSE HostOf(d)

\* C12: with empty company enrich returns the first company, in iteration order, that
\* has a property containing the cleaned domain or lying inside it, and Unknown /
\* Unknown when there is none; a cleaned domain that is the empty string has none.
C12_FirstRelatedOrUnknown ==
    EnrichedEmpty =>
        LET d == _clean_domain(probe.arg.domain)
            none == d = <<>> \/ Related(d) = {}
        IN /\ none => probe.result.company = Unknown /\ probe.result.category = Unknown
           /\ ~none => \E i \in Related(d) :
                          /\ \A k \in Related(d) : i <= k
                          /\ probe.result.company = tracker_db[i].name

\* C13: _clean_domain returns the host of its argument with at most one leading "www."
\* removed; a "www." or a scheme that is not at the start stays in place.
C13_HostWithoutLeadingWww ==
    probe.fn = "_clean_domain" => probe.result = HostSansWww(probe.arg)

\* the keyword lists that have a word inside the lower-cased name
Buckets(name) ==
    {b \in 1..3 :
        LET words == <<AdWords, AnalyticsWords, SocialWords>>[b]
        IN \E w \in 1..Len(words) : IsSubstr(words[w], Lower(name))}

\* C14: _get_category returns the bucket of the first keyword list (advertising, then
\* analytics, then social) with a keyword inside the lower-cased name, and Tracking
\* when no list has one.
C14_FirstBucketWins ==
    probe.fn = "_get_category" =>
        probe.result =
            IF Buckets(probe.arg) = {} THEN Tracking
            ELSE <<Advertising, Analytics, Social>>[
                     CHOOSE b \in Buckets(probe.arg) : \A c \in Buckets(probe.arg) : b <= c]

\* a name with an advertising and an analytics keyword was classified
C14_TwoBuckets ==
    /\ probe.fn = "_get_category"
    /\ {1, 2} \subseteq Buckets(probe.arg)
    /\ probe.result = Advertising

\* C15: after a failed download the matcher holds an empty table, and every enrich on a
\* record with empty company returns Unknown and Unknown.
C15_FailedLoadAlwaysUnknown ==
    probe.download \in Failures =>
        /\ tracker_db = <<>>
        /\ EnrichedEmpty =>
              /\ probe.result.company = Unknown
              /\ probe.result.category = Unknown
              /\ probe.result.domain = probe.arg.domain

\* after a download that timed out, doubleclick.net was looked up
C15_LookupAfterTimeout ==
    /\ probe.download = "Timeout"
    /\ EnrichedEmpty
    /\ probe.arg.domain = DoubleClick
    /\ probe.result.company = Unknown

\* the three dashboard reads
StatsReads == {"get_overview_stats", "get_trends_data", "get_breakdown_stats"}

\* C16: in every statement of the three dashboard reads the owning-user predicate is in
\* the text exactly when the email is non-empty, the placeholders number as many as the
\* parameters passed, and the rows let through are the user's, or the rows of all users
\* when the email is empty.
C16_FilterIffEmail ==
    [][(probe' # probe /\ probe'.fn \in StatsReads) =>
        \A k \in 1..Len(probe'.result) :
            LET st == probe'.result[k]
                marks == {i \in 1..Len(st.text) : st.text[i] = Placeholder}
                preds == {i \in 1..Len(st.text) : st.text[i] \in {WhereEmail, AndEmail}}
            IN /\ (preds # {}) <=> (probe'.arg # <<>>)
               /\ Cardinality(marks) = Len(st.params)
               /\ st.rows = IF probe'.arg = <<>> THEN 1..Len(URL_DATA')
                            ELSE {i \in 1..Len(URL_DATA') :
                                    URL_DATA'[i].EMAIL_ID = probe'.arg}]_vars

\* get_breakdown_stats was called without an email over rows of two users, and with the
\* first user's email it would let through one of them
C16_AllUsersRead ==
    /\ probe.fn = "get_breakdown_stats"
    /\ probe.arg = <<>>
    /\ Len(URL_DATA) = 2
    /\ URL_DATA[1].EMAIL_ID # URL_DATA[2].EMAIL_ID
    /\ probe.result[5].rows = {1, 2}
    /\ probe.result[5].params = <<>>

\* the email of the upload the single worker is handling or has just answered
Uploader == IF out.route # "" THEN out.email ELSE req[1].email

CookiesUploaded ==
    /\ out.route \in {"POST /api/trackers", "POST /api/cookies/upload"}
    /\ out.status = 200
    /\ out.success
    /\ out.sent.cookies > 0

InBackfill == req[1].pc \in {"enrich_select", "enrich_row"}

\* C19: whatever fails in the backfill after an upload (the read of the unlabeled rows,
\* the update of one row), the stored rows stay stored, the upload answers success =
\* true with the counts of its inserts, and a row that fails does not keep the loop
\* from the rows after it.
C19_BackfillFailureSwallowed ==
    [][InBackfill =>
        /\ Len(URL_DATA') = Len(URL_DATA)
        /\ \A i \in 1..Len(URL_DATA) : URL_DATA'[i].DOMAIN_NAME = URL_DATA[i].DOMAIN_NAME
        /\ IF req'[1].pc = "idle"
           THEN /\ out'.route = "POST /api/trackers"
                /\ out'.status = 200
                /\ out'.success
                /\ out'.trackers_inserted = req[1].trackers_inserted
                /\ out'.trackers_inserted = out'.sent.trackers
                /\ out'.cookies_inserted = req[1].cookies_inserted
           ELSE /\ req'[1].pc = "enrich_row"
                /\ req'[1].trackers_inserted = req[1].trackers_inserted
        /\ (req[1].pc = "enrich_row" /\ Len(req[1].todo) > 1) =>
              /\ req'[1].pc = "enrich_row"
              /\ req'[1].todo = Tail(req[1].todo)]_vars

\* the update of the first row failed (the row still has no company although the
\* table knows its domain) and the loop has gone on to the second row
C19_SecondRowAfterFailedFirst ==
    /\ req[1].pc = "enrich_row"
    /\ Len(URL_DATA) = 2
    /\ Len(req[1].todo) = 1
    /\ req[1].todo[1].ID = 2
    /\ URL_DATA[1].DOMAIN_NAME = DoubleClick
    /\ URL_DATA[1].COMPANY = <<>>
    /\ URL_DATA[1].ENRICH_WRITES = 0

\* the routes that ask the generative model
AIRoutes == {"GET /api/security-report"} \cup SummaryRoutes

\* C20: a request to GET /api/security-report, GET /api/summary or GET /api/gemini
\* issues at most one call to the generative-AI client; when the call fails or the
\* answer cannot be parsed the request ends with an error, no second call made; and the
\* security report issues no call when the warehouse returned no domain statistics.
C20_AtMostOneCall ==
    report.route \in AIRoutes =>
        /\ report.calls <= 1
        /\ report.called => report.calls = 1
        /\ (report.calls = 1 /\ ~report.called) => report.status = 500
        /\ (report.route = "GET /api/security-report" /\ report.called
                /\ report.text \in NotObject) => report.status = 500
        /\ (report.route = "GET /api/security-report" /\ report.domains = 0) =>
               report.calls = 0
        /\ report.status = 200 =>
               \/ report.called /\ report.calls = 1
               \/ report.route = "GET /api/security-report" /\ report.domains = 0

\* GET /api/summary ended with an error after its one call to the client failed
C20_SummaryCallFailed ==
    /\ report.route = "GET /api/summary"
    /\ report.calls = 1
    /\ ~report.called
    /\ report.status = 500

\* the security report was asked for with the handle present, no AI key configured,
\* and domain statistics returned by the warehouse
NoKeyReport ==
    /\ report.route = "GET /api/security-report"
    /\ snowflake_db
    /\ ~report.gemini_key
    /\ report.domains > 0

\* C21 as stated: without an AI key and with domain statistics, the security report
\* answers with a body and raises no HTTP error.
C21_NoKeySoftFails == NoKeyReport => report.status = 200

\* C21: without an AI key and with domain statistics, the security report raises HTTP
\* 500 with the detail of a failed report, and calls the model not at all.
C21_NoKeyRaises ==
    NoKeyReport =>
        /\ report.status = 500
        /\ report.detail = ReportFailed
        /\ report.calls = 0
        /\ ~report.called

\* a user with one tracker domain asked for the report while no key was configured
C21_ReportWithoutKey ==
    /\ NoKeyReport
    /\ report.domains = 1
    /\ report.status = 500

\* startup_event has run and the first connection to the warehouse failed
FailedStartup == Started /\ probe.result = "connect"

\* the warehouse-backed read routes that answer through the dashboard
DashboardReads ==
    {"GET /api/overview", "GET /api/trends", "GET /api/breakdown", "GET /api/cookies",
     "GET /api/trackers/history"}

\* C22: when the first connection fails at startup the process starts all the same,
\* the warehouse handle is absent in every later state, GET /api/health answers status
\* ok with database disconnected, and every warehouse-backed read route answers 503.
C22_AbsentHandleForever ==
    FailedStartup =>
        /\ ~snowflake_db
        /\ view.route = "GET /api/health" =>
              /\ view.status = 200
              /\ view.rows = <<[status |-> "ok", database |-> "disconnected"]>>
        /\ view.route \in DashboardReads => view.status = 503
        /\ out.route = "GET /api/blocklist" => out.status = 503
        /\ report.route = "GET /api/security-report" => report.status = 503

\* after a failed startup the tracker history, the blocklist and the security report
\* have each been asked for and refused
C22_ReadsRefused ==
    /\ FailedStartup
    /\ view.route = "GET /api/trackers/history"
    /\ view.status = 503
    /\ out.route = "GET /api/blocklist"
    /\ out.status = 503
    /\ report.route = "GET /api/security-report"
    /\ report.status = 503

\* the routes of the matcher
MatcherRoutes == {"POST /identify", "POST /identify/batch", "GET /stats"}

\* C23: once startup has built the matcher, POST /identify, POST /identify/batch and
\* GET /stats answer a well-formed request with 200 and a body; they answer 503 only
\* while the matcher is not built, and never 500.
C23_MatcherRoutesAnswer ==
    [][(view' # view /\ view'.route \in MatcherRoutes) =>
          view'.status = IF Started THEN 200 ELSE 503]_vars

SeriesAnswered ==
    /\ view.route \in {"GET /api/overview", "GET /api/trends"}
    /\ view.status = 200

\* the dates of a series are the window's consecutive days, ascending, ending today
EndsToday(series, window) ==
    /\ Len(series) = window
    /\ \A k \in 1..Len(series) : series[k].date = DateOf(now) - (window - k)

C26_PlaceholdersInRange ==
    SeriesAnswered =>
        /\ \A k \in 1..Len(view.trackerDaily) :
              LET e == view.trackerDaily[k]
              IN IF e.isReal
                 THEN \E j \in 1..Len(view.rows) :
                         view.rows[j].DATE = e.date /\ view.rows[j].COUNT = e.count
                 ELSE IF view.route = "GET /api/overview"
                 THEN e.count \in OverviewLo..OverviewHi
                 ELSE e.count \in TrendsLo..TrendsHi
        /\ \A k \in 1..Len(view.cookieDaily) :
              /\ view.cookieDaily[k].count \in CookieLo..CookieHi
              /\ ~view.cookieDaily[k].isReal
        /\ view.route = "GET /api/overview" => view.cookieDaily = <<>>

\* a trends answer with a real tracker entry, a tracker placeholder at the top of its
\* range and a cookie placeholder at the bottom of its range
C26_RealNextToPlaceholders ==
    /\ view.route = "GET /api/trends"
    /\ view.status = 200
    /\ view.window = 2
    /\ view.trackerDaily[1].isReal
    /\ ~view.trackerDaily[2].isReal
    /\ view.trackerDaily[2].count = TrendsHi
    /\ view.cookieDaily[1].count = CookieLo

\* the indices of the rows an add with these arguments stores
RowsOfPair(table, domain, user_email) ==
    {i \in 1..Len(table) : table[i] = BlockRow(domain, user_email)}

\* C27: remove_from_blocklist(domain, user) returns True exactly when a row of that
\* pair was stored before the call, afterwards no row of the pair is stored and the
\* rows of other pairs are as they were, so that it undoes an add with the same
\* arguments, for every domain, those longer than 255 characters included.
C27_RemoveUndoesAdd ==
    [][(/\ out'.route = "remove_from_blocklist"
        /\ out'.status = 200
        /\ (out' # out \/ blocklist' # blocklist)) =>
          LET pair == RowsOfPair(blocklist, out'.domain, out'.email)
              others == Ascending((1..Len(blocklist)) \ pair)
          IN /\ out'.success <=> pair # {}
             /\ RowsOfPair(blocklist', out'.domain, out'.email) = {}
             /\ blocklist' = [k \in 1..Len(others) |-> blocklist[others[k]]]]_vars

\* C28: get_blocklist(u) returns exactly the domains of the rows stored for u; a
\* domain u has just added is in the result; an add or a remove by another user
\* leaves the result for u as it was.
C28_OwnDomainsListed ==
    [][/\ (out'.route = "GET /api/blocklist" /\ out'.status = 200) =>
            /\ out'.domains = DomainsOf(blocklist', out'.email)
            /\ (out'.follows # None /\ out'.follows.email = out'.email) =>
                  \E k \in 1..Len(out'.domains) : out'.domains[k] = out'.follows.domain
       /\ \A u \in Users :
            (blocklist' # blocklist /\ out'.email # u) =>
                DomainsOf(blocklist', u) = DomainsOf(blocklist, u)]_vars

\* the company the enrichment table holds for the domain of a stored row, <<>> if none
CompanyFor(row) ==
    LET m == FirstMatch(tracker_db, _clean_domain(row.DOMAIN_NAME))
    IN IF m = 0 THEN <<>> ELSE tracker_db[m].name

\* C29: under repeated successful uploads, every stored row whose company is empty
\* or 'Unknown' and whose domain matches a company of the enrichment table is
\* eventually labelled with that company.
C29_EventuallyLabelled ==
    \A i \in 1..MaxRows :
        (/\ snowflake_db
         /\ i <= Len(URL_DATA)
         /\ NeedsLabel(URL_DATA[i])
         /\ CompanyFor(URL_DATA[i]) # <<>>)
            ~> (i <= Len(URL_DATA) /\ URL_DATA[i].COMPANY = CompanyFor(URL_DATA[i]))

\* C30: enrich is idempotent and changes only the label fields: enriching its result
\* again gives the same record; a record whose company is not empty comes back as it
\* went in; for a record with an empty company only company and category can differ
\* from the input; the enrichment table is the same after the call.
C30_EnrichIdempotent ==
    [][(probe' # probe /\ probe'.fn = "enrich") =>
          /\ enrich(tracker_db', probe'.result) = probe'.result
          /\ probe'.arg.company # <<>> => probe'.result = probe'.arg
          /\ [probe'.result EXCEPT !.company = probe'.arg.company,
                                   !.category = probe'.arg.category] = probe'.arg
          /\ tracker_db' = tracker_db]_vars

\* enrich has labelled a record with an empty company whose domain is matched only
\* once cleaned, and the domain of the result is the one that was sent
C30_LabelledOnCleanedDomain ==
    /\ probe.fn = "enrich"
    /\ probe.arg.company = <<>>
    /\ probe.arg.domain = Www \o DoubleClick \o <<"/", "x">>
    /\ probe.result.company = Google
    /\ probe.result.domain = probe.arg.domain
    /\ tracker_db # <<>>

\* the write routes
WriteRoutes == {"POST /api/trackers", "POST /api/cookies/upload", "POST /api/blocklist"}

====
